---- MODULE Spec2Model ----
(***************************************************************************)
(* The IPC engine of lair_api (crates/lair_api/src/internal/ipc.rs).        *)
(* Spec: one connection between two endpoints, each running the four loop  *)
(* tasks that spawn_connection_pair starts (ll-write, ll-read, con-write,  *)
(* con-read) plus the req-mini tasks of inbound requests, over a duplex    *)
(* byte stream that splits writes and reads as it likes.                   *)
(* KsSpec: the KillSwitch type on its own.                                 *)
(* LstSpec: a listener (spawn_bind_ipc) and the connections it accepts.    *)
(***************************************************************************)
EXTENDS Integers, Sequences, FiniteSets, TLC

\* ---------------------------------------------------------------- bounds
MaxReq == 2        \* requests the two applications submit in total
MaxId == 2         \* correlation ids are 1..MaxId
MaxPay == 1        \* response payloads are 1..MaxPay
MaxClones == 3     \* clones of one kill switch alive at a time (KsSpec)
MaxFaults == 1     \* teardown triggers in one run: an application drops its
                   \* kill switch or its request-sender, a read fails
MaxAcceptErr == 2  \* accepts that fail in one run of a listener (LstSpec)

\* ------------------------------------------------------ program constants
ChanCap == 10      \* futures::channel::mpsc::channel(10)
BufSize == 4096    \* let mut buffer = [0_u8; 4096]
HdrLen == 1        \* bytes of a frame that hold its length
ReqTag == 0        \* frame byte naming a request
ResTag == 1        \* frame byte naming a response
MaxFrame == 4      \* bytes of the longest frame

Peers == {"cli", "srv"}
Other(p) == IF p = "cli" THEN "srv" ELSE "cli"
KsIds == Peers \cup {"lst"}
Ids == 1..MaxId
Pays == 1..MaxPay

Min(a, b) == IF a < b THEN a ELSE b
Range(s) == {s[i] : i \in 1..Len(s)}
RemoveAt(s, i) == SubSeq(s, 1, i - 1) \o SubSeq(s, i + 1, Len(s))

\* ------------------------------------------------------------ LairWire
\* A message: correlation id, request/response classification, payload.
NoMsg == [id |-> 0, req |-> FALSE, pay |-> 0]
Request(i) == [id |-> i, req |-> TRUE, pay |-> 0]
Response(i, v) == [id |-> i, req |-> FALSE, pay |-> v]
Msgs == {Request(i) : i \in Ids} \cup {Response(i, v) : i \in Ids, v \in Pays}

get_msg_id(m) == m.id
is_req(m) == m.req

\* msg.encode(): a length-prefixed frame.
encode(m) ==
    IF m.req THEN <<3, ReqTag, m.id>> ELSE <<4, ResTag, m.id, m.pay>>

\* A byte of a buffer; a position past its end reads as 0.
ByteAt(buf, i) == IF i <= Len(buf) THEN buf[i] ELSE 0

\* LairWire::peek_size: Err (-1) while the length prefix is incomplete.
peek_size(buf) == IF Len(buf) < HdrLen THEN -1 ELSE buf[1]

\* LairWire::decode: the message at the front of the buffer.
decode(buf) ==
    IF ByteAt(buf, 2) = ReqTag
    THEN [id |-> ByteAt(buf, 3), req |-> TRUE, pay |-> 0]
    ELSE [id |-> ByteAt(buf, 3), req |-> FALSE, pay |-> ByteAt(buf, 4)]

\* pending_data.drain(..size)
drain(buf, size) == SubSeq(buf, Min(size, Len(buf)) + 1, Len(buf))

\* The frames a byte sequence holds, in order (a trailing partial frame is
\* left out).
RECURSIVE Frames(_)
Frames(buf) ==
    IF peek_size(buf) < 1 \/ Len(buf) < peek_size(buf) THEN <<>>
    ELSE <<decode(buf)>> \o Frames(drain(buf, peek_size(buf)))

\* ----------------------------------------------------------- KillSwitch
\* Arc<AtomicBool>: the shared flag and the number of live clones.
NoSwitch == [made |-> FALSE, flag |-> FALSE, n |-> 0]

\* KillSwitch::new
KillSwitchNew == [made |-> TRUE, flag |-> TRUE, n |-> 1]

\* A clone that starts a flag of its own instead of sharing the Arc.
KillSwitchCloneFresh(k) == [k EXCEPT !.flag = TRUE, !.n = k.n + 1]

\* #[derive(Clone)]: one more handle on the same flag.
KillSwitchClone(k) == [k EXCEPT !.n = k.n + 1]

\* A drop that releases the handle and stores nothing.
KillSwitchDropSilent(k) == [k EXCEPT !.n = k.n - 1]

\* impl Drop for KillSwitch: store(false).
KillSwitchDrop(k) == [k EXCEPT !.flag = FALSE, !.n = k.n - 1]

\* KillSwitch::cont: load().
cont(k) == k.flag

\* One flag for the listener and every connection: a drop anywhere stops all.
drop_shared_kill_switch(k, p) == [i \in DOMAIN k |-> KillSwitchDrop(k[i])]

\* A holder of a clone of kill switch p drops it. Each spawn_connection_pair
\* and each spawn_bind_ipc makes a KillSwitch of its own, so no other
\* switch is touched.
drop_kill_switch(k, p) == [k EXCEPT ![p] = KillSwitchDrop(@)]

\* ---------------------------------------------------------- RespondTrack
\* HashMap<u64, IpcRespond>: id -> the caller's completion (its index in
\* calls, 0 when the id is absent).
RespondTrackNew == [i \in Ids |-> 0]

\* A register that never inserts.
register_skipped(t, msg_id, respond) == t

\* A register that keeps the entry already there (entry().or_insert()).
register_keep_first(t, msg_id, respond) ==
    IF t[msg_id] # 0 THEN t ELSE [t EXCEPT ![msg_id] = respond]

\* RespondTrack::register: lock.insert(msg_id, respond).
register(t, msg_id, respond) == [t EXCEPT ![msg_id] = respond]

\* A lookup by arrival order: the oldest completion still registered.
respond_lookup_oldest(t, m) ==
    LET s == {t[i] : i \in DOMAIN t} \ {0}
    IN IF s = {} THEN 0 ELSE CHOOSE k \in s : \A j \in s : k <= j

\* A lookup that falls back on the first completion when the id is absent.
respond_lookup_default(t, m) ==
    IF t[get_msg_id(m)] # 0 THEN t[get_msg_id(m)] ELSE 1

\* RespondTrack::respond: the completion lock.remove(&msg_id) yields.
respond_lookup(t, m) == t[get_msg_id(m)]

\* A respond that reads the entry (get) and leaves it in the table.
respond_remove_kept(t, m) == t

\* A respond that clears the whole table.
respond_remove_all(t, m) == [i \in DOMAIN t |-> 0]

\* RespondTrack::respond: the table after lock.remove(&msg_id).
respond_remove(t, m) == [t EXCEPT ![get_msg_id(m)] = 0]

\* ---------------------------------------------------------------- state
VARIABLES
    ks,       \* kill switches: the two connections' and the listener's
    appKs,    \* the application still holds the clone it was given
    appSend,  \* the application still holds the request-sender
    calls,    \* per endpoint, the requests submitted and their futures
    outQ,     \* outgoing_msg channel: completions of queued requests
    track,    \* the RespondTrack table
    cw,       \* con-write task: position and the request in hand
    llwQ,     \* channel into the write pump
    llw,      \* write pump position
    wr,       \* write pump: the frame being written and its bytes still to go
    wire,     \* bytes written by an endpoint and not yet read by its peer
    sent,     \* frames the write pump has written, in order
    pend,     \* read pump: pending_data
    llr,      \* read pump position
    rdSlot,   \* channel out of the read pump (the message awaiting its ack)
    got,      \* frames the read pump has published, in order
    cr,       \* con-read task position
    inb,      \* inbound requests the application has not answered yet
    answered, \* responses the application has produced
    eofSeen,  \* the read pump has had a read return zero bytes
    faults,   \* teardown triggers so far (drops by the applications,
              \* transport read errors)
    lst       \* the listener: its bind loop, the incoming-connection queue
              \* and what the application holds of it

vars == <<ks, appKs, appSend, calls, outQ, track, cw, llwQ, llw, wr, wire,
          sent, pend, llr, rdSlot, got, cr, inb, answered, eofSeen, faults,
          lst>>

\* A submitted request: its id, its future (st: "wait", "ok" with the
\* response m, or "fail"), and whether the connection's kill switch already
\* read false when it was submitted.
Call(i, st, m, late) == [id |-> i, st |-> st, m |-> m, late |-> late]
TotalCalls == Len(calls["cli"]) + Len(calls["srv"])

\* The completions in `toks` that are still pending are dropped unfulfilled.
FailToks(cs, toks) ==
    [k \in 1..Len(cs) |->
        IF k \in toks /\ cs[k].st = "wait" THEN [cs[k] EXCEPT !.st = "fail"]
        ELSE cs[k]]

Tracked(t) == {t[i] : i \in Ids} \ {0}

Ended(pc) == pc \in {"done", "err"}

\* The transport (unix socket / named pipe) of endpoint q is closed once both
\* of its halves are dropped: the peer then reads end-of-stream and its
\* writes fail.
StreamClosed(q) == Ended(llw[q]) /\ Ended(llr[q])

\* No listener: the connection was handed to spawn_connection_pair directly.
NoListener ==
    [pc |-> "none", log |-> <<>>, published |-> <<>>, queue |-> <<>>,
     taken |-> <<>>, appKs |-> FALSE, appRecv |-> FALSE]

\* The write pump between frames: nothing of a write_all is outstanding.
NoWrite == [m |-> NoMsg, from |-> "none", rest |-> <<>>]

\* spawn_connection_pair: KillSwitch::new() and a clone for each of the four
\* tasks; the original goes to the application.
ConnKillSwitch ==
    KillSwitchClone(KillSwitchClone(KillSwitchClone(KillSwitchClone(KillSwitchNew))))

\* What dropping the tasks' resources does to the callers' completions: the
\* requests still queued are dropped with outgoing_msg_recv, the registered
\* ones with the last clone of the RespondTrack.
CallsAfter(cs, t, oq, cwEnd, crEnd) ==
    FailToks(cs, (IF cwEnd THEN Range(oq) ELSE {})
                 \cup (IF cwEnd /\ crEnd THEN Tracked(t) ELSE {}))

TrackAfter(t, cwEnd, crEnd) == IF cwEnd /\ crEnd THEN RespondTrackNew ELSE t

\* ----------------------------------------------------------------- Init
Init ==
    /\ ks = [k \in KsIds |-> IF k \in Peers THEN ConnKillSwitch ELSE NoSwitch]
    /\ appKs = [p \in Peers |-> TRUE]
    /\ appSend = [p \in Peers |-> TRUE]
    /\ calls = [p \in Peers |-> <<>>]
    /\ outQ = [p \in Peers |-> <<>>]
    /\ track = [p \in Peers |-> RespondTrackNew]
    /\ cw = [p \in Peers |-> [pc |-> "recv", tok |-> 0]]
    /\ llwQ = [p \in Peers |-> <<>>]
    /\ llw = [p \in Peers |-> "run"]
    /\ wr = [p \in Peers |-> NoWrite]
    /\ wire = [p \in Peers |-> <<>>]
    /\ sent = [p \in Peers |-> <<>>]
    /\ pend = [p \in Peers |-> <<>>]
    /\ llr = [p \in Peers |-> "read"]
    /\ rdSlot = [p \in Peers |-> <<>>]
    /\ got = [p \in Peers |-> <<>>]
    /\ cr = [p \in Peers |-> "run"]
    /\ inb = [p \in Peers |-> <<>>]
    /\ answered = [p \in Peers |-> {}]
    /\ eofSeen = [p \in Peers |-> FALSE]
    /\ faults = 0
    /\ lst = NoListener

\* ---------------------------------------------------------- application
\* request-sender.send(message): the request joins the outgoing_msg
\* channel; when its receiver is gone the send fails at once.
AppRequest(p, i) ==
    /\ appSend[p]
    /\ TotalCalls < MaxReq
    /\ Len(outQ[p]) < ChanCap
    /\ IF cw[p].pc # "done"
       THEN /\ calls' = [calls EXCEPT ![p] = Append(@, Call(i, "wait", NoMsg, ~cont(ks[p])))]
            /\ outQ' = [outQ EXCEPT ![p] = Append(@, Len(calls[p]) + 1)]
       ELSE /\ calls' = [calls EXCEPT ![p] = Append(@, Call(i, "fail", NoMsg, ~cont(ks[p])))]
            /\ outQ' = outQ
    /\ UNCHANGED <<ks, appKs, appSend, track, cw, llwQ, llw, wr, wire, sent, pend,
                   llr, rdSlot, got, cr, inb, answered, eofSeen, faults,
                   lst>>

\* drop(kill_switch) by the application.
AppDropKill(p) ==
    /\ appKs[p]
    /\ faults < MaxFaults
    /\ faults' = faults + 1
    /\ appKs' = [appKs EXCEPT ![p] = FALSE]
    /\ ks' = drop_kill_switch(ks, p)
    /\ UNCHANGED <<appSend, calls, outQ, track, cw, llwQ, llw, wr, wire, sent,
                   pend, llr, rdSlot, got, cr, inb, answered, eofSeen,
                   lst>>

\* The application drops its request-sender.
AppDropSender(p) ==
    /\ appSend[p]
    /\ faults < MaxFaults
    /\ faults' = faults + 1
    /\ appSend' = [appSend EXCEPT ![p] = FALSE]
    /\ UNCHANGED <<ks, appKs, calls, outQ, track, cw, llwQ, llw, wr, wire, sent,
                   pend, llr, rdSlot, got, cr, inb, answered, eofSeen,
                   lst>>

\* A req-mini task that writes back under the id of the oldest request still
\* unanswered.
mini_response_head(inbound, idx, v) == Response(get_msg_id(inbound[1]), v)

\* What the req-mini task of inbound request number idx writes back: the
\* message the application passed to that request's respond-handle (an
\* answer v to the request's id).
mini_response(inbound, idx, v) == Response(get_msg_id(inbound[idx]), v)

\* The application answers inbound request number idx through its
\* respond-handle; the req-mini task then hands the response to the write
\* pump (and gives up silently when the pump is gone).
AppRespond(p, idx, v) ==
    /\ idx \in 1..Len(inb[p])
    /\ Len(llwQ[p]) < ChanCap
    /\ LET res == mini_response(inb[p], idx, v) IN
        /\ inb' = [inb EXCEPT ![p] = RemoveAt(@, idx)]
        /\ answered' = [answered EXCEPT ![p] = @ \cup {res}]
        /\ llwQ' = IF llw[p] = "run"
                   THEN [llwQ EXCEPT ![p] = Append(@, [m |-> res, from |-> "mini"])]
                   ELSE llwQ
    /\ UNCHANGED <<ks, appKs, appSend, calls, outQ, track, cw, llw, wr, wire, sent,
                   pend, llr, rdSlot, got, cr, eofSeen, faults,
                   lst>>

\* The application drops the respond-handle of inbound request number idx
\* without answering: fut.await yields Err and the req-mini task ends,
\* writing nothing.
AppDropRespond(p, idx) ==
    /\ idx \in 1..Len(inb[p])
    /\ inb' = [inb EXCEPT ![p] = RemoveAt(@, idx)]
    /\ UNCHANGED <<ks, appKs, appSend, calls, outQ, track, cw, llwQ, llw, wr,
                   wire, sent, pend, llr, rdSlot, got, cr, answered, eofSeen,
                   faults,
                   lst>>

\* ------------------------------------------------------------- con-write
\* The task ends: its kill switch clone, its RespondTrack clone and
\* outgoing_msg_recv are dropped.
CwEnds(p) ==
    /\ cw' = [cw EXCEPT ![p] = [pc |-> "done", tok |-> 0]]
    /\ ks' = drop_kill_switch(ks, p)
    /\ calls' = [calls EXCEPT ![p] =
                    CallsAfter(@, track[p], outQ[p], TRUE, cr[p] = "done")]
    /\ track' = [track EXCEPT ![p] = TrackAfter(@, TRUE, cr[p] = "done")]
    /\ outQ' = [outQ EXCEPT ![p] = <<>>]

\* outgoing_msg_recv.next() yields a request: register its id.
CwRecv(p) ==
    /\ cw[p].pc = "recv"
    /\ outQ[p] # <<>>
    /\ LET tok == Head(outQ[p])
           id == calls[p][tok].id
           old == track[p][id]
       IN /\ track' = [track EXCEPT ![p] = register(@, id, tok)]
          /\ calls' = [calls EXCEPT ![p] = FailToks(@, {old} \ {0})]
          /\ cw' = [cw EXCEPT ![p] = [pc |-> "send", tok |-> tok]]
    /\ outQ' = [outQ EXCEPT ![p] = Tail(@)]
    /\ UNCHANGED <<ks, appKs, appSend, llwQ, llw, wr, wire, sent, pend, llr,
                   rdSlot, got, cr, inb, answered, eofSeen, faults,
                   lst>>

\* writer.low_level_send(msg): the message joins the write pump's channel,
\* or the send fails because the pump is gone and the task ends.
CwSend(p) ==
    /\ cw[p].pc = "send"
    /\ \/ /\ llw[p] = "run"
          /\ Len(llwQ[p]) < ChanCap
          /\ llwQ' = [llwQ EXCEPT ![p] =
                Append(@, [m |-> Request(calls[p][cw[p].tok].id), from |-> "cw"])]
          /\ cw' = [cw EXCEPT ![p].pc = "wait"]
          /\ UNCHANGED <<ks, calls, track, outQ>>
       \/ /\ llw[p] # "run"
          /\ CwEnds(p)
          /\ llwQ' = llwQ
    /\ UNCHANGED <<appKs, appSend, llw, wr, wire, sent, pend, llr, rdSlot, got,
                   cr, inb, answered, eofSeen, faults,
                   lst>>

\* The write pump has answered: `?` ends the task on a failure, otherwise
\* the kill switch decides.
CwAck(p) ==
    /\ cw[p].pc \in {"ackok", "ackerr"}
    /\ IF cw[p].pc = "ackerr" \/ ~cont(ks[p])
       THEN CwEnds(p)
       ELSE /\ cw' = [cw EXCEPT ![p] = [pc |-> "recv", tok |-> 0]]
            /\ UNCHANGED <<ks, calls, track, outQ>>
    /\ UNCHANGED <<appKs, appSend, llwQ, llw, wr, wire, sent, pend, llr, rdSlot,
                   got, cr, inb, answered, eofSeen, faults,
                   lst>>

\* outgoing_msg_recv.next() yields None: every request-sender is dropped.
CwClosed(p) ==
    /\ cw[p].pc = "recv"
    /\ outQ[p] = <<>>
    /\ ~appSend[p]
    /\ CwEnds(p)
    /\ UNCHANGED <<appKs, appSend, llwQ, llw, wr, wire, sent, pend, llr, rdSlot,
                   got, cr, inb, answered, eofSeen, faults,
                   lst>>

\* ------------------------------------------------------------ write pump
\* A pump that takes the next message while a write is still outstanding.
pump_always_idle(w) == TRUE

\* r.next().await is reached only between turns of the loop: the write_all
\* of the previous frame has returned.
pump_idle(w) == w.rest = <<>>

\* A pump that consults the kill switch after every write call.
pump_breaks_midway(complete, k) == ~cont(k)

\* if !kill_switch.cont() { break }: reached once the turn's write_all has
\* returned and its outcome has been reported.
pump_breaks(complete, k) == complete /\ ~cont(k)

\* One write call of the ll-write loop. The pump takes a message and encodes
\* it (when it is between frames), and write_all hands the transport the
\* next n bytes. Once the last byte is written, or a write fails, the pump
\* reports the outcome to the submitter and consults the kill switch. When
\* the loop breaks, the receiver is dropped with whatever is still queued.
LLWrite(p, n) ==
    /\ llw[p] = "run"
    /\ pump_idle(wr[p]) => llwQ[p] # <<>>
    /\ LET fresh == pump_idle(wr[p])
           e == IF fresh THEN Head(llwQ[p]) ELSE [m |-> wr[p].m, from |-> wr[p].from]
           bytes == IF fresh THEN encode(e.m) ELSE wr[p].rest
           q == IF fresh THEN Tail(llwQ[p]) ELSE llwQ[p]
           ok == ~StreamClosed(Other(p))
           complete == ~ok \/ n = Len(bytes)
           stop == pump_breaks(complete, ks[p])
           cwLeft == \E i \in 1..Len(q) : q[i].from = "cw"
       IN /\ n \in 1..Len(bytes)
          /\ wire' = IF ok THEN [wire EXCEPT ![p] = @ \o SubSeq(bytes, 1, n)] ELSE wire
          /\ sent' = IF ok /\ complete THEN [sent EXCEPT ![p] = Append(@, e.m)] ELSE sent
          /\ wr' = [wr EXCEPT ![p] =
                        IF complete THEN NoWrite
                        ELSE [m |-> e.m, from |-> e.from,
                              rest |-> SubSeq(bytes, n + 1, Len(bytes))]]
          /\ cw' = IF complete /\ e.from = "cw"
                   THEN [cw EXCEPT ![p].pc = IF ok THEN "ackok" ELSE "ackerr"]
                   ELSE IF stop /\ cwLeft
                        THEN [cw EXCEPT ![p].pc = "ackerr"]
                        ELSE cw
          /\ llwQ' = [llwQ EXCEPT ![p] = IF stop THEN <<>> ELSE q]
          /\ llw' = [llw EXCEPT ![p] = IF stop THEN "done" ELSE "run"]
          /\ ks' = IF stop THEN drop_kill_switch(ks, p) ELSE ks
    /\ UNCHANGED <<appKs, appSend, calls, outQ, track, pend, llr, rdSlot, got,
                   cr, inb, answered, eofSeen, faults,
                   lst>>

\* r.next() yields None: every sender of the channel (con-write's,
\* con-read's, the req-mini tasks') is dropped.
LLWriteClosed(p) ==
    /\ llw[p] = "run"
    /\ pump_idle(wr[p])
    /\ llwQ[p] = <<>>
    /\ cw[p].pc = "done"
    /\ cr[p] = "done"
    /\ inb[p] = <<>>
    /\ llw' = [llw EXCEPT ![p] = "done"]
    /\ ks' = drop_kill_switch(ks, p)
    /\ UNCHANGED <<wr, appKs, appSend, calls, outQ, track, cw, llwQ, wire, sent,
                   pend, llr, rdSlot, got, cr, inb, answered, eofSeen, faults,
                   lst>>

\* ------------------------------------------------------------- read pump
\* A drain loop without the `pending_data.len() < size` test.
frame_ready_unchecked(buf) == peek_size(buf) >= 0

\* while let Ok(size) = peek_size(..) { if len < size { break } .. }: a
\* whole frame is at the front of the buffer.
frame_ready(buf) == peek_size(buf) >= 0 /\ Len(buf) >= peek_size(buf)

\* The drain loop from its head, with `buf` as pending_data: decode one
\* frame and publish it (then wait for the acknowledgement), or leave the
\* loop and consult the kill switch.
DrainStep(p, buf) ==
    IF frame_ready(buf)
    THEN /\ pend' = [pend EXCEPT ![p] = drain(buf, peek_size(buf))]
         /\ IF cr[p] = "run"
            THEN /\ rdSlot' = [rdSlot EXCEPT ![p] = <<decode(buf)>>]
                 /\ got' = [got EXCEPT ![p] = Append(@, decode(buf))]
                 /\ llr' = [llr EXCEPT ![p] = "sent"]
                 /\ ks' = ks
            ELSE /\ llr' = [llr EXCEPT ![p] = "err"]
                 /\ ks' = drop_kill_switch(ks, p)
                 /\ UNCHANGED <<rdSlot, got>>
    ELSE /\ pend' = [pend EXCEPT ![p] = buf]
         /\ UNCHANGED <<rdSlot, got>>
         /\ IF cont(ks[p])
            THEN /\ llr' = [llr EXCEPT ![p] = "read"]
                 /\ ks' = ks
            ELSE /\ llr' = [llr EXCEPT ![p] = "done"]
                 /\ ks' = drop_kill_switch(ks, p)

\* read_half.read(&mut buffer) returns n > 0 bytes, however the transport
\* chooses to split the stream.
LLRead(p, n) ==
    /\ llr[p] = "read"
    /\ n \in 1..Min(Len(wire[Other(p)]), BufSize)
    /\ wire' = [wire EXCEPT ![Other(p)] = SubSeq(@, n + 1, Len(@))]
    /\ DrainStep(p, pend[p] \o SubSeq(wire[Other(p)], 1, n))
    /\ UNCHANGED <<appKs, appSend, calls, outQ, track, cw, llwQ, llw, wr, sent,
                   cr, inb, answered, eofSeen, faults,
                   lst>>

\* read_half.read(&mut buffer) returns Ok(0): the stream has ended.
LLReadEof(p) ==
    /\ llr[p] = "read"
    /\ wire[Other(p)] = <<>>
    /\ StreamClosed(Other(p))
    /\ eofSeen' = [eofSeen EXCEPT ![p] = TRUE]
    /\ DrainStep(p, pend[p])
    /\ UNCHANGED <<appKs, appSend, calls, outQ, track, cw, llwQ, llw, wr, wire,
                   sent, cr, inb, answered, faults,
                   lst>>

\* read_half.read(&mut buffer) returns Err: `?` ends the task.
LLReadErr(p) ==
    /\ llr[p] = "read"
    /\ faults < MaxFaults
    /\ faults' = faults + 1
    /\ llr' = [llr EXCEPT ![p] = "err"]
    /\ ks' = drop_kill_switch(ks, p)
    /\ UNCHANGED <<appKs, appSend, calls, outQ, track, cw, llwQ, llw, wr, wire,
                   sent, pend, rdSlot, got, cr, inb, answered, eofSeen,
                   lst>>

\* s.low_level_send(msg).await returned Ok: back to the head of the drain
\* loop.
LLCont(p) ==
    /\ llr[p] = "acked"
    /\ DrainStep(p, pend[p])
    /\ UNCHANGED <<appKs, appSend, calls, outQ, track, cw, llwQ, llw, wr, wire,
                   sent, cr, inb, answered, eofSeen, faults,
                   lst>>

\* -------------------------------------------------------------- con-read
\* A con-read that hands every message to the RespondTrack.
to_tracker_always(msg) == TRUE

\* if msg.is_req() { .. } else { respond_track.respond(msg) }: only a
\* message that is not a request reaches the RespondTrack.
to_tracker(msg) == ~is_req(msg)

\* One turn of the con-read loop: take a message, acknowledge it at once,
\* forward a request to the application (spawning its req-mini task) or
\* hand a response to the RespondTrack, then consult the kill switch.
CrStep(p) ==
    /\ cr[p] = "run"
    /\ rdSlot[p] # <<>>
    /\ LET msg == Head(rdSlot[p])
           k == respond_lookup(track[p], msg)
           hit == to_tracker(msg) /\ k # 0
           t1 == IF hit THEN respond_remove(track[p], msg) ELSE track[p]
           cs1 == IF hit
                  THEN [calls[p] EXCEPT ![k] = [@ EXCEPT !.st = "ok", !.m = msg]]
                  ELSE calls[p]
           stop == ~cont(ks[p])
           cwEnd == cw[p].pc = "done"
       IN /\ inb' = IF is_req(msg) THEN [inb EXCEPT ![p] = Append(@, msg)] ELSE inb
          /\ calls' = [calls EXCEPT ![p] = CallsAfter(cs1, t1, outQ[p], cwEnd, stop)]
          /\ track' = [track EXCEPT ![p] = TrackAfter(t1, cwEnd, stop)]
          /\ cr' = [cr EXCEPT ![p] = IF stop THEN "done" ELSE "run"]
          /\ ks' = IF stop THEN drop_kill_switch(ks, p) ELSE ks
    /\ rdSlot' = [rdSlot EXCEPT ![p] = <<>>]
    /\ llr' = [llr EXCEPT ![p] = "acked"]
    /\ UNCHANGED <<appKs, appSend, outQ, cw, llwQ, llw, wr, wire, sent, pend, got,
                   answered, eofSeen, faults,
                   lst>>

\* reader.next() yields None: the read pump has ended and dropped its
\* sender.
CrClosed(p) ==
    /\ cr[p] = "run"
    /\ rdSlot[p] = <<>>
    /\ Ended(llr[p])
    /\ cr' = [cr EXCEPT ![p] = "done"]
    /\ ks' = drop_kill_switch(ks, p)
    /\ calls' = [calls EXCEPT ![p] =
                    CallsAfter(@, track[p], outQ[p], cw[p].pc = "done", TRUE)]
    /\ track' = [track EXCEPT ![p] = TrackAfter(@, cw[p].pc = "done", TRUE)]
    /\ UNCHANGED <<appKs, appSend, outQ, cw, llwQ, llw, wr, wire, sent, pend, llr,
                   rdSlot, got, inb, answered, eofSeen, faults,
                   lst>>

\* ------------------------------------------------------ the specification
AppStep ==
    \/ \E p \in Peers, i \in Ids : AppRequest(p, i)
    \/ \E p \in Peers : AppDropKill(p)
    \/ \E p \in Peers : AppDropSender(p)
    \/ \E p \in Peers, idx \in 1..MaxReq, v \in Pays : AppRespond(p, idx, v)
    \/ \E p \in Peers, idx \in 1..MaxReq : AppDropRespond(p, idx)

TransportStep ==
    \E p \in Peers : LLReadErr(p)

TaskStep ==
    \/ \E p \in Peers : CwRecv(p)
    \/ \E p \in Peers : CwSend(p)
    \/ \E p \in Peers : CwAck(p)
    \/ \E p \in Peers : CwClosed(p)
    \/ \E p \in Peers : \E n \in 1..MaxFrame : LLWrite(p, n)
    \/ \E p \in Peers : LLWriteClosed(p)
    \/ \E p \in Peers : \E n \in 1..Len(wire[Other(p)]) : LLRead(p, n)
    \/ \E p \in Peers : LLReadEof(p)
    \/ \E p \in Peers : LLCont(p)
    \/ \E p \in Peers : CrStep(p)
    \/ \E p \in Peers : CrClosed(p)

Next == AppStep \/ TransportStep \/ TaskStep

Spec == Init /\ [][Next]_vars

\* The tasks are spawned on the tokio runtime, which keeps polling a task
\* that can make progress; the applications and the transport owe nothing.
FairSpec ==
    /\ Spec
    /\ \A p \in Peers :
        /\ WF_vars(CwRecv(p)) /\ WF_vars(CwSend(p)) /\ WF_vars(CwAck(p))
        /\ WF_vars(CwClosed(p)) /\ WF_vars(\E n \in 1..MaxFrame : LLWrite(p, n))
        /\ WF_vars(LLWriteClosed(p)) /\ WF_vars(LLReadEof(p))
        /\ WF_vars(\E n \in 1..Len(wire[Other(p)]) : LLRead(p, n))
        /\ WF_vars(LLCont(p)) /\ WF_vars(CrStep(p)) /\ WF_vars(CrClosed(p))

\* ------------------------------------------- the KillSwitch type on its own
\* Any program using KillSwitch: switches are created, cloned and dropped
\* in any order.
KsInit ==
    /\ ks = [k \in KsIds |-> NoSwitch]
    /\ appKs = [p \in Peers |-> TRUE]
    /\ appSend = [p \in Peers |-> TRUE]
    /\ calls = [p \in Peers |-> <<>>]
    /\ outQ = [p \in Peers |-> <<>>]
    /\ track = [p \in Peers |-> RespondTrackNew]
    /\ cw = [p \in Peers |-> [pc |-> "recv", tok |-> 0]]
    /\ llwQ = [p \in Peers |-> <<>>]
    /\ llw = [p \in Peers |-> "run"]
    /\ wr = [p \in Peers |-> NoWrite]
    /\ wire = [p \in Peers |-> <<>>]
    /\ sent = [p \in Peers |-> <<>>]
    /\ pend = [p \in Peers |-> <<>>]
    /\ llr = [p \in Peers |-> "read"]
    /\ rdSlot = [p \in Peers |-> <<>>]
    /\ got = [p \in Peers |-> <<>>]
    /\ cr = [p \in Peers |-> "run"]
    /\ inb = [p \in Peers |-> <<>>]
    /\ answered = [p \in Peers |-> {}]
    /\ eofSeen = [p \in Peers |-> FALSE]
    /\ faults = 0
    /\ lst = NoListener

KsRest == <<appKs, appSend, calls, outQ, track, cw, llwQ, llw, wr, wire, sent,
            pend, llr, rdSlot, got, cr, inb, answered, eofSeen, faults, lst>>

KsNew(i) ==
    /\ ~ks[i].made
    /\ ks' = [ks EXCEPT ![i] = KillSwitchNew]
    /\ UNCHANGED KsRest

KsClone(i) ==
    /\ ks[i].n >= 1
    /\ ks[i].n < MaxClones
    /\ ks' = [ks EXCEPT ![i] = KillSwitchClone(@)]
    /\ UNCHANGED KsRest

KsDrop(i) ==
    /\ ks[i].n >= 1
    /\ ks' = [ks EXCEPT ![i] = KillSwitchDrop(@)]
    /\ UNCHANGED KsRest

KsNext ==
    \/ \E i \in KsIds : KsNew(i)
    \/ \E i \in KsIds : KsClone(i)
    \/ \E i \in KsIds : KsDrop(i)

KsSpec == KsInit /\ [][KsNext]_vars

\* ------------------------------------------------ a listener on its own
\* spawn_bind_ipc and the connections its bind loop accepts. The two
\* endpoint slots hold the connections accepted, which here are siblings
\* on one listener; their remote clients are outside this specification, so
\* the transfers of the pumps are left out: requests are submitted,
\* registered and queued, senders and kill switches are dropped, a read may
\* fail.
LstInit ==
    /\ ks = [k \in KsIds |->
                IF k = "lst" THEN KillSwitchClone(KillSwitchNew) ELSE NoSwitch]
    /\ appKs = [p \in Peers |-> FALSE]
    /\ appSend = [p \in Peers |-> FALSE]
    /\ calls = [p \in Peers |-> <<>>]
    /\ outQ = [p \in Peers |-> <<>>]
    /\ track = [p \in Peers |-> RespondTrackNew]
    /\ cw = [p \in Peers |-> [pc |-> "none", tok |-> 0]]
    /\ llwQ = [p \in Peers |-> <<>>]
    /\ llw = [p \in Peers |-> "none"]
    /\ wr = [p \in Peers |-> NoWrite]
    /\ wire = [p \in Peers |-> <<>>]
    /\ sent = [p \in Peers |-> <<>>]
    /\ pend = [p \in Peers |-> <<>>]
    /\ llr = [p \in Peers |-> "none"]
    /\ rdSlot = [p \in Peers |-> <<>>]
    /\ got = [p \in Peers |-> <<>>]
    /\ cr = [p \in Peers |-> "none"]
    /\ inb = [p \in Peers |-> <<>>]
    /\ answered = [p \in Peers |-> {}]
    /\ eofSeen = [p \in Peers |-> FALSE]
    /\ faults = 0
    /\ lst = [pc |-> "accept", log |-> <<>>, published |-> <<>>,
              queue |-> <<>>, taken |-> <<>>, appKs |-> TRUE, appRecv |-> TRUE]

\* The accepts that have failed so far.
AcceptErrs == Cardinality({i \in 1..Len(lst.log) : lst.log[i] = "fail"})

\* A bind loop that gives up on a failed accept (srv.accept().await?).
accept_err_fatal(k) == "err"

\* srv_main_bind_task after an accept that returned Err: `if let Ok(..)` is
\* skipped and the kill switch decides whether the loop goes on.
after_accept_err(k) == IF cont(k) THEN "accept" ELSE "done"

\* srv.accept() returns Err.
LstAcceptErr ==
    /\ lst.pc = "accept"
    /\ AcceptErrs < MaxAcceptErr
    /\ LET pc2 == after_accept_err(ks["lst"])
       IN /\ lst' = [lst EXCEPT !.pc = pc2, !.log = Append(@, "fail")]
          /\ ks' = IF pc2 = "accept" THEN ks ELSE drop_kill_switch(ks, "lst")
    /\ UNCHANGED <<appKs, appSend, calls, outQ, track, cw, llwQ, llw, wr, wire,
                   sent, pend, llr, rdSlot, got, cr, inb, answered, eofSeen,
                   faults>>

\* srv.accept() returns a transport pair: spawn_connection_pair makes the
\* connection in slot p, in_send.send publishes its handles (`?` ends the
\* task, dropping them, when the receiver is gone), then the kill switch
\* decides whether the loop goes on.
LstAccept(p) ==
    /\ lst.pc = "accept"
    /\ ~ks[p].made
    /\ Len(lst.queue) < ChanCap
    /\ LET sendOk == lst.appRecv
           pc2 == IF ~sendOk THEN "err"
                  ELSE IF cont(ks["lst"]) THEN "accept" ELSE "done"
           k1 == [ks EXCEPT ![p] = ConnKillSwitch]
           k2 == IF sendOk THEN k1 ELSE drop_kill_switch(k1, p)
       IN /\ ks' = IF pc2 = "accept" THEN k2 ELSE drop_kill_switch(k2, "lst")
          /\ lst' = [lst EXCEPT !.pc = pc2,
                                !.log = Append(@, p),
                                !.published = IF sendOk THEN Append(@, p) ELSE @,
                                !.queue = IF sendOk THEN Append(@, p) ELSE @]
          /\ appKs' = [appKs EXCEPT ![p] = sendOk]
          /\ appSend' = [appSend EXCEPT ![p] = sendOk]
    /\ cw' = [cw EXCEPT ![p] = [pc |-> "recv", tok |-> 0]]
    /\ llw' = [llw EXCEPT ![p] = "run"]
    /\ llr' = [llr EXCEPT ![p] = "read"]
    /\ cr' = [cr EXCEPT ![p] = "run"]
    /\ UNCHANGED <<calls, outQ, track, llwQ, wr, wire, sent, pend, rdSlot, got,
                   inb, answered, eofSeen, faults>>

\* The application takes the next connection off the incoming queue.
LstAppTake ==
    /\ lst.appRecv
    /\ lst.queue # <<>>
    /\ lst' = [lst EXCEPT !.queue = Tail(@), !.taken = Append(@, Head(lst.queue))]
    /\ UNCHANGED <<ks, appKs, appSend, calls, outQ, track, cw, llwQ, llw, wr,
                   wire, sent, pend, llr, rdSlot, got, cr, inb, answered,
                   eofSeen, faults>>

\* The application drops the listener's kill switch.
LstAppDropKill ==
    /\ lst.appKs
    /\ lst' = [lst EXCEPT !.appKs = FALSE]
    /\ ks' = drop_kill_switch(ks, "lst")
    /\ UNCHANGED <<appKs, appSend, calls, outQ, track, cw, llwQ, llw, wr, wire,
                   sent, pend, llr, rdSlot, got, cr, inb, answered, eofSeen,
                   faults>>

\* The application drops the incoming-connection receiver: the connections
\* still queued are dropped with it, kill switch and request-sender.
LstAppDropRecv ==
    /\ lst.appRecv
    /\ lst' = [lst EXCEPT !.appRecv = FALSE, !.queue = <<>>]
    /\ ks' = [k \in KsIds |->
                 IF k \in Range(lst.queue) THEN KillSwitchDrop(ks[k]) ELSE ks[k]]
    /\ appKs' = [p \in Peers |-> appKs[p] /\ p \notin Range(lst.queue)]
    /\ appSend' = [p \in Peers |-> appSend[p] /\ p \notin Range(lst.queue)]
    /\ UNCHANGED <<calls, outQ, track, cw, llwQ, llw, wr, wire, sent, pend, llr,
                   rdSlot, got, cr, inb, answered, eofSeen, faults>>

\* What the application does with a connection it has taken.
LstConnApp(p) ==
    /\ p \in Range(lst.taken)
    /\ \/ \E i \in Ids : AppRequest(p, i)
       \/ AppDropKill(p)
       \/ AppDropSender(p)

LstNext ==
    \/ LstAcceptErr
    \/ \E p \in Peers : LstAccept(p)
    \/ LstAppTake
    \/ LstAppDropKill
    \/ LstAppDropRecv
    \/ \E p \in Peers : LstConnApp(p)
    \/ \E p \in Peers : CwRecv(p)
    \/ \E p \in Peers : CwSend(p)
    \/ \E p \in Peers : CwClosed(p)
    \/ \E p \in Peers : LLReadErr(p)
    \/ \E p \in Peers : CrClosed(p)

LstSpec == LstInit /\ [][LstNext]_vars

\* ============================================================ properties
Toks(p) == 1..Len(calls[p])

\* The frames on their way from p to its peer: the bytes the peer's read
\* pump has buffered followed by the bytes still in the stream.
InFlight(p) == Frames(pend[Other(p)] \o wire[p])

\* con-read at p takes a response from the read pump in this step.
RespondStep(p) ==
    /\ cr[p] = "run"
    /\ rdSlot[p] # <<>>
    /\ ~is_req(Head(rdSlot[p]))
    /\ rdSlot'[p] = <<>>

\* A fulfilled completion holds a message of its own id and is no longer in
\* the table.
C1_Inv ==
    \A p \in Peers : \A k \in Toks(p) :
        calls[p][k].st = "ok" =>
            /\ get_msg_id(calls[p][k].m) = calls[p][k].id
            /\ track[p][calls[p][k].id] # k

\* A fulfilled completion never changes again, and a response whose id is not
\* registered fulfils nothing.
C1_Step ==
    \A p \in Peers :
        /\ \A k \in Toks(p) :
              calls[p][k].st = "ok" => calls'[p][k] = calls[p][k]
        /\ (RespondStep(p) /\ track[p][get_msg_id(Head(rdSlot[p]))] = 0) =>
              \A k \in Toks(p) : calls'[p][k].st = "ok" <=> calls[p][k].st = "ok"

\* C1: a registered request's completion is fulfilled at most once, with a
\* message of the same correlation id, and its entry leaves the table on
\* fulfilment: a fulfilled completion never changes again, and a response
\* whose id is not registered fulfils nothing.
C1_AtMostOnce == [](C1_Inv) /\ [][C1_Step]_vars

\* Two requests with the same id were submitted, one response fulfilled the
\* registration and a second response with that id has been consumed.
C1_Witness ==
    \E p \in Peers :
        /\ Len(calls[p]) = 2
        /\ calls[p][1].id = calls[p][2].id
        /\ calls[p][2].st = "ok"
        /\ Len(got[p]) = 2
        /\ \A i \in 1..2 : ~is_req(got[p][i])
        /\ rdSlot[p] = <<>>
        /\ cr[p] = "run"

\* C3: responses to one endpoint's own requests are matched by correlation
\* id, never by arrival order: whenever a pending completion is fulfilled,
\* it is fulfilled with the response con-read has just taken from the read
\* pump, and that response carries the id the completion was submitted with,
\* whatever else is pending.
C3_MatchedById ==
    [][\A p \in Peers : \A k \in Toks(p) :
          (calls[p][k].st = "wait" /\ calls'[p][k].st = "ok") =>
              /\ RespondStep(p)
              /\ calls'[p][k].m = Head(rdSlot[p])
              /\ get_msg_id(Head(rdSlot[p])) = calls[p][k].id]_vars

\* Requests 1 then 2 were submitted; the response to 2 has arrived first and
\* resolved the second caller while the first is still registered.
C3_Witness ==
    \E p \in Peers :
        /\ Len(calls[p]) = 2
        /\ calls[p][1].id = 1 /\ calls[p][2].id = 2
        /\ calls[p][1].st = "wait" /\ track[p][1] = 1
        /\ calls[p][2].st = "ok" /\ get_msg_id(calls[p][2].m) = 2

\* Either endpoint may originate a request. When con-read takes the
\* response to a registered request, that request's completion resolves to
\* exactly this response, which is one the peer's application produced; no
\* other completion of either endpoint is fulfilled, and unless the
\* RespondTrack is dropped in the same turn no other entry leaves a table.
C4_Step ==
    \A p \in Peers :
        RespondStep(p) =>
            LET msg == Head(rdSlot[p])
                k == track[p][get_msg_id(msg)]
            IN /\ k # 0 =>
                    /\ calls'[p][k] = [calls[p][k] EXCEPT !.st = "ok", !.m = msg]
                    /\ msg \in answered[Other(p)]
               /\ \A j \in Toks(p) \ {k} :
                    \/ calls'[p][j] = calls[p][j]
                    \/ /\ cr'[p] = "done"
                       /\ calls'[p][j] = [calls[p][j] EXCEPT !.st = "fail"]
               /\ \A i \in Ids \ {get_msg_id(msg)} :
                    track'[p][i] = track[p][i] \/ cr'[p] = "done"
               /\ calls'[Other(p)] = calls[Other(p)]
               /\ track'[Other(p)] = track[Other(p)]

\* C4: on a connection where either endpoint originates requests, the
\* response to a request resolves that request's completion and touches no
\* other completion of either endpoint (C4_Step, at every step).
C4_BothDirections == [][C4_Step]_vars

\* Each endpoint has originated a request and both have resolved.
C4_Witness ==
    /\ \A p \in Peers : Len(calls[p]) = 1 /\ calls[p][1].st = "ok"
    /\ \A p \in Peers : calls[p][1].m \in answered[Other(p)]

\* The requests of p's own that are past con-write's hand-off: queued for the
\* write pump, being written, or on their way to the peer.
HandedOff(p) ==
    {e.m : e \in {x \in Range(llwQ[p]) : x.from = "cw"}}
        \cup {m \in {wr[p].m} : wr[p].from = "cw"}
        \cup {m \in Range(InFlight(p)) : is_req(m)}

\* The responses on their way back to p: queued at the peer's write pump or
\* being written by it, in the stream, or published by p's read pump and
\* not yet taken by con-read.
Replies(p) ==
    {e.m : e \in {x \in Range(llwQ[Other(p)]) : x.from = "mini"}}
        \cup {m \in {wr[Other(p)].m} : wr[Other(p)].from = "mini"}
        \cup {m \in Range(InFlight(Other(p))) : ~is_req(m)}
        \cup {m \in Range(rdSlot[p]) : ~is_req(m)}

\* The id has been registered for a request that has left the outgoing
\* queue: its completion is in the table, or has been fulfilled or dropped
\* since.
Registered(p, i) ==
    \E k \in Toks(p) :
        /\ calls[p][k].id = i
        /\ k \notin Range(outQ[p])
        /\ (track[p][i] = k \/ calls[p][k].st # "wait")

\* Request k of p has been handed to the write pump's channel.
PastHandOff(p, k) ==
    /\ k \notin Range(outQ[p])
    /\ ~(cw[p].tok = k /\ cw[p].pc = "send")

\* C5: con-write registers a request's id before it hands the message to
\* the write pump: every own request that is queued for the write pump or on
\* the wire, and every reply heading back, has an id whose registration has
\* already been made, and a request whose future is still pending once it
\* has been handed off is in the table.
C5_RegisteredBeforeHandOff ==
    \A p \in Peers :
        /\ \A m \in HandedOff(p) \cup Replies(p) : Registered(p, get_msg_id(m))
        /\ \A k \in Toks(p) :
              (calls[p][k].st = "wait" /\ PastHandOff(p, k)) =>
                  track[p][calls[p][k].id] = k

\* A request's bytes are in the stream and its completion is pending in the
\* table.
C5_Witness ==
    \E p \in Peers : \E k \in Toks(p) :
        /\ Request(calls[p][k].id) \in Range(Frames(wire[p]))
        /\ pend[Other(p)] = <<>>
        /\ calls[p][k].st = "wait"
        /\ track[p][calls[p][k].id] = k

\* C2: whatever way the transport splits the byte stream into reads, the
\* read pump publishes exactly the frames written, whole and in order: the
\* frames published so far followed by the frames still in transit are the
\* frames the peer's write pump wrote, and a read pump waiting for bytes
\* holds no complete frame. (A pump that ended with an error may have
\* dropped the frame it could not publish.)
C2_FramesInOrder ==
    \A p \in Peers :
        /\ llr[p] # "err" => got[p] \o InFlight(Other(p)) = sent[Other(p)]
        /\ \A i \in 1..Len(got[p]) : i <= Len(sent[Other(p)]) /\ got[p][i] = sent[Other(p)][i]
        /\ llr[p] = "read" => ~(peek_size(pend[p]) >= 0 /\ Len(pend[p]) >= peek_size(pend[p]))

\* A frame has been published and the next one is buffered in part (a
\* mid-frame split), with a further frame behind it in the stream.
C2_Witness ==
    \E p \in Peers :
        /\ Len(got[p]) >= 1
        /\ llr[p] = "read"
        /\ pend[p] # <<>>
        /\ Len(sent[Other(p)]) >= 2

\* The flag of a kill switch is shared by its clones and monotonic: a
\* new switch reads true, a drop of any clone leaves it reading false, and
\* once it reads false it reads false ever after, whatever is cloned,
\* dropped or created.
C8_Step ==
    \A i \in KsIds :
        /\ (~ks[i].made /\ ks'[i].made) => cont(ks'[i])
        /\ (ks[i].made /\ ks'[i].n < ks[i].n) => ~cont(ks'[i])
        /\ (ks[i].made /\ ~cont(ks[i])) => ~cont(ks'[i])
        /\ ks[i].made => ks'[i].made

\* C8: the kill switch flag is shared by all clones and monotonic (C8_Step,
\* at every step).
C8_Monotonic == [][C8_Step]_vars

\* A clone was dropped and the survivors were cloned again, while another
\* switch created since still reads true.
C8_Witness ==
    \E i, j \in KsIds :
        /\ ks[i].made /\ ~cont(ks[i]) /\ ks[i].n = MaxClones
        /\ ks[j].made /\ cont(ks[j])

\* All four loop tasks of endpoint p have ended.
AllEnded(p) ==
    Ended(llw[p]) /\ Ended(llr[p]) /\ cw[p].pc = "done" /\ cr[p] = "done"

\* The connection of endpoint p is dying: its kill switch reads false (a
\* clone was dropped, by the application or by a task that ended), or the
\* peer has closed the stream.
Dying(p) == ~cont(ks[p]) \/ StreamClosed(Other(p))

\* C6: a request awaiting its response when the connection dies eventually
\* stops waiting (its completion is dropped with the RespondTrack).
C6_PendingFails ==
    \A p \in Peers : \A k \in 1..MaxReq :
        (k \in Toks(p) /\ calls[p][k].st = "wait" /\ Dying(p))
            ~> (k \in Toks(p) /\ calls[p][k].st # "wait")

\* C7: once a clone of a connection's kill switch is dropped, each of the
\* four tasks sharing it eventually terminates.
C7_AllTasksStop ==
    \A p \in Peers : (~cont(ks[p])) ~> AllEnded(p)

\* C9: a read that returns zero bytes ends the read pump with an error.
C9_EofIsFatal ==
    \A p \in Peers : eofSeen[p] => llr[p] = "err"

\* C10: a request submitted when the connection's kill switch already reads
\* false is never registered in the RespondTrack nor taken up by con-write
\* for sending, and its future does not resolve to a response.
C10_LateRequestRejected ==
    \A p \in Peers : \A k \in Toks(p) :
        calls[p][k].late =>
            /\ track[p][calls[p][k].id] # k
            /\ cw[p].tok # k
            /\ calls[p][k].st # "ok"

\* con-read at p takes a message from the read pump in this step.
CrTurn(p) ==
    /\ cr[p] = "run"
    /\ rdSlot[p] # <<>>
    /\ rdSlot'[p] = <<>>

\* The responses p has handed to its write pump and not yet written.
MiniQueued(p) == {e.m : e \in {x \in Range(llwQ[p]) : x.from = "mini"}}

\* Whatever the application has left unanswered, a message waiting at
\* con-read can be taken, and every response on its way out is one the
\* application produced.
C11_Inv ==
    \A p \in Peers :
        /\ (cr[p] = "run" /\ rdSlot[p] # <<>>) => ENABLED CrStep(p)
        /\ MiniQueued(p) \subseteq answered[p]
        /\ \A i \in 1..Len(sent[p]) : ~is_req(sent[p][i]) => sent[p][i] \in answered[p]

\* A con-read turn acknowledges the frame and forwards a request behind the
\* unanswered ones; a response to an own request still completes its pending
\* entry. When the application answers or abandons an inbound request, any
\* of them, the other unanswered requests stay, the response handed to the
\* write pump carries the id of the request answered, and no completion or
\* table entry of the endpoint changes.
C11_Step ==
    \A p \in Peers :
        /\ CrTurn(p) =>
              LET msg == Head(rdSlot[p])
                  k == track[p][get_msg_id(msg)]
              IN /\ llr'[p] = "acked"
                 /\ is_req(msg) => inb'[p] = Append(inb[p], msg)
                 /\ (~is_req(msg) /\ k # 0) =>
                        calls'[p][k] = [calls[p][k] EXCEPT !.st = "ok", !.m = msg]
        /\ Len(inb'[p]) < Len(inb[p]) =>
              /\ calls'[p] = calls[p]
              /\ track'[p] = track[p]
              /\ \E idx \in 1..Len(inb[p]) :
                    /\ inb'[p] = RemoveAt(inb[p], idx)
                    /\ \/ llwQ'[p] = llwQ[p]
                       \/ \E v \in Pays :
                            LET res == Response(get_msg_id(inb[p][idx]), v)
                            IN /\ llwQ'[p] = Append(llwQ[p], [m |-> res, from |-> "mini"])
                               /\ answered'[p] = answered[p] \cup {res}

\* C11: an inbound request the application has not answered, or never
\* answers, does not block con-read: later frames are still acknowledged and
\* processed, later requests forwarded, responses to own requests completed,
\* and inbound requests can be answered in any order, each response written
\* back carrying what the application produced for that request.
C11_InboundNeverBlocks == [](C11_Inv) /\ [][C11_Step]_vars

\* Two inbound requests with different ids arrived; the first is still
\* unanswered while the answer to the second has already resolved the
\* peer's second call.
C11_Witness ==
    \E p \in Peers :
        /\ Len(calls[Other(p)]) = 2
        /\ calls[Other(p)][1].id # calls[Other(p)][2].id
        /\ inb[p] = <<Request(calls[Other(p)][1].id)>>
        /\ calls[Other(p)][1].st = "wait"
        /\ calls[Other(p)][2].st = "ok"
        /\ calls[Other(p)][2].m \in answered[p]

\* The bytes of a sequence of frames, one encoding after the other.
RECURSIVE EncodeAll(_)
EncodeAll(ms) ==
    IF ms = <<>> THEN <<>> ELSE encode(Head(ms)) \o EncodeAll(Tail(ms))

\* Every byte p's write pump has put on the stream, in order: those its
\* peer's read pump has turned into frames or buffered, then those still in
\* the stream.
Written(p) == EncodeAll(got[Other(p)]) \o pend[Other(p)] \o wire[p]

\* The messages con-write has handed to the write pump and whose outcome the
\* pump has not reported yet.
CwOutstanding(p) ==
    Cardinality({i \in 1..Len(llwQ[p]) : llwQ[p][i].from = "cw"})
        + (IF wr[p].from = "cw" THEN 1 ELSE 0)

\* C12: the writes of one connection are serialized by its single write
\* pump. The bytes on the stream are the encodings of the frames written so
\* far, whole and one after the other, followed by the part already written
\* of the one frame in progress (or of the frame whose write failed, after
\* which nothing more is written); and the pump is between frames only when
\* every outcome is reported: con-write waits for an outcome exactly while
\* its message is queued or being written. (A read pump that ended with an
\* error may have discarded bytes, so the stream is compared while it has
\* not.)
C12_WritesSerialized ==
    \A p \in Peers :
        /\ llr[Other(p)] # "err" =>
              IF wr[p].rest # <<>>
              THEN Written(p) \o wr[p].rest = EncodeAll(sent[p]) \o encode(wr[p].m)
              ELSE \E m \in Msgs : \E j \in 0..(Len(encode(m)) - 1) :
                      /\ Written(p) = EncodeAll(sent[p]) \o SubSeq(encode(m), 1, j)
                      /\ j > 0 => StreamClosed(Other(p))
        /\ wr[p].rest # <<>> => Len(wr[p].rest) < Len(encode(wr[p].m))
        /\ llw[p] = "run" => (cw[p].pc = "wait" <=> CwOutstanding(p) = 1)
        /\ CwOutstanding(p) <= 1

\* A response is half written while con-write's request waits behind it in
\* the pump's queue.
C12_Witness ==
    \E p \in Peers :
        /\ wr[p].from = "mini"
        /\ wr[p].rest # <<>>
        /\ \E i \in 1..Len(llwQ[p]) : llwQ[p][i].from = "cw"
        /\ cw[p].pc = "wait"
        /\ wire[p] # <<>>

\* What belongs to the connection in slot p: its kill switch, its pending
\* table and callers' completions, its queues and its four tasks.
ConnState(p) ==
    <<ks[p], track[p], calls[p], outQ[p], cw[p], llwQ[p], llw[p], wr[p],
      llr[p], rdSlot[p], cr[p]>>

\* A task of connection p ends in this step.
TaskEnds(p) ==
    \/ ~Ended(llw[p]) /\ Ended(llw'[p])
    \/ ~Ended(llr[p]) /\ Ended(llr'[p])
    \/ cw[p].pc # "done" /\ cw'[p].pc = "done"
    \/ cr[p] # "done" /\ cr'[p] = "done"

\* The application drops the kill switch of connection p in this step.
KillDropped(p) == p \in Range(lst.taken) /\ appKs[p] /\ ~appKs'[p]

\* C13: failures are local to a connection. In a step in which a task of
\* one connection ends, with or without an error, or its kill switch is
\* dropped, nothing of the sibling connection changes (kill switch, pending
\* table, completions, queues, tasks), nor does the listener's kill switch,
\* its bind loop or its incoming queue.
C13_FailuresLocal ==
    [][\A p \in Peers :
          (TaskEnds(p) \/ KillDropped(p)) =>
              /\ ConnState(Other(p))' = ConnState(Other(p))
              /\ ks'["lst"] = ks["lst"]
              /\ lst' = lst]_vars

\* The read pump and con-read of one connection have ended on a read error,
\* while its sibling has a request pending behind running tasks and the
\* listener is still accepting.
C13_Witness ==
    \E p \in Peers :
        /\ llr[p] = "err" /\ cr[p] = "done" /\ ~cont(ks[p])
        /\ cont(ks[Other(p)])
        /\ Tracked(track[Other(p)]) # {}
        /\ cw[Other(p)].pc = "wait" /\ cr[Other(p)] = "run"
        /\ lst.pc = "accept" /\ cont(ks["lst"])

\* The connections accepted so far, in acceptance order.
AcceptedConns == SelectSeq(lst.log, LAMBDA x : x # "fail")

\* An accept returns Err in this step.
AcceptFails == lst.pc = "accept" /\ Len(lst'.log) > Len(lst.log) /\ lst'.log[Len(lst'.log)] = "fail"

\* An accepted pair became a connection, published in acceptance order: the
\* connections published are those accepted, in the same order (but for the
\* last one when the application had dropped the incoming receiver, which
\* ends the loop), and each has its kill switch and its tasks.
C14_Inv ==
    /\ lst.pc \in {"accept", "done"} => lst.published = AcceptedConns
    /\ \A i \in 1..Len(lst.published) : lst.published[i] = AcceptedConns[i]
    /\ lst.published = lst.taken \o lst.queue \/ ~lst.appRecv
    /\ \A p \in Range(AcceptedConns) : ks[p].made /\ cw[p].pc # "none"

\* C14: a failed accept is not fatal to the listener. When accept returns
\* an error while the listener's kill switch reads true, the bind loop is
\* back at accept with its kill switch clone kept and the incoming queue
\* untouched; and every pair accepted, before or after, becomes a connection
\* published to the incoming queue in acceptance order.
C14_AcceptErrNotFatal ==
    /\ [](C14_Inv)
    /\ [][(AcceptFails /\ cont(ks["lst"])) =>
            /\ lst'.pc = "accept"
            /\ ks' = ks
            /\ lst'.queue = lst.queue /\ lst'.published = lst.published]_vars

\* The first accept failed; the two pairs accepted after it were published
\* in that order and the loop is at accept again.
C14_Witness ==
    /\ Len(lst.log) = 3
    /\ lst.log[1] = "fail" /\ lst.log[2] # "fail" /\ lst.log[3] # "fail"
    /\ lst.published = <<lst.log[2], lst.log[3]>>
    /\ lst.pc = "accept"

\* The write pump of p makes a write call in this step and the call fails:
\* the peer has closed the stream.
WriteFails(p) ==
    /\ llw[p] = "run"
    /\ StreamClosed(Other(p))
    /\ \/ Len(llwQ'[p]) < Len(llwQ[p])
       \/ wr[p].rest # <<>> /\ wr'[p].rest = <<>>

\* C15: a write that fails is fatal for the write pump: the pump ends in
\* the step in which write_all returns the error.
C15_WriteErrFatal ==
    [][\A p \in Peers : WriteFails(p) => Ended(llw'[p])]_vars

\* con-read at p takes a response whose id is not in the table.
UnmatchedResponse(p) ==
    /\ CrTurn(p)
    /\ ~is_req(Head(rdSlot[p]))
    /\ track[p][get_msg_id(Head(rdSlot[p]))] = 0

\* C16: a response whose correlation id is not registered (never was, or
\* already completed) is dropped silently. In the con-read turn that takes
\* it no completion is fulfilled, nothing is forwarded to the application
\* and the frame is acknowledged; while the kill switch reads true the
\* table and every completion are left as they were and con-read stays in
\* its loop (no error ends it).
C16_UnmatchedDropped ==
    [][\A p \in Peers :
          UnmatchedResponse(p) =>
              /\ \A k \in Toks(p) : calls'[p][k].st = "ok" <=> calls[p][k].st = "ok"
              /\ inb'[p] = inb[p]
              /\ llr'[p] = "acked"
              /\ cont(ks[p]) =>
                    /\ track'[p] = track[p]
                    /\ calls'[p] = calls[p]
                    /\ cr'[p] = "run"
                    /\ ks'[p] = ks[p]]_vars

\* Two requests used the same id, so the second response found the id
\* already completed: it was taken and dropped, the caller whose
\* registration was replaced stays failed, and con-read and the read pump
\* are back waiting for the next frame.
C16_Witness ==
    \E p \in Peers :
        /\ Len(calls[p]) = 2
        /\ calls[p][1].st = "fail" /\ calls[p][2].st = "ok"
        /\ Len(got[p]) = 2 /\ ~is_req(got[p][1]) /\ ~is_req(got[p][2])
        /\ get_msg_id(got[p][2]) = calls[p][2].id
        /\ Tracked(track[p]) = {}
        /\ rdSlot[p] = <<>> /\ cr[p] = "run" /\ llr[p] = "read"
        /\ cont(ks[p])

\* A pump that has left its loop holds no unfinished work unit: the write
\* pump no frame written in part, the read pump that ended on the kill
\* switch no whole frame still to decode and publish.
C17_Inv ==
    \A p \in Peers :
        /\ wr[p].rest # <<>> => llw[p] = "run"
        /\ llr[p] = "done" =>
              /\ ~(peek_size(pend[p]) >= 0 /\ Len(pend[p]) >= peek_size(pend[p]))
              /\ rdSlot[p] = <<>>

\* The step in which the write pump leaves its loop after a write call: the
\* frame it was writing is on the stream to its last byte (unless the write
\* failed), counted as written, and its outcome has been reported to
\* con-write if con-write submitted it.
C17_Step ==
    \A p \in Peers :
        (llw[p] = "run" /\ llw'[p] = "done" /\ wire'[p] # wire[p]) =>
            /\ wr'[p] = NoWrite
            /\ Len(sent'[p]) = Len(sent[p]) + 1
            /\ wr[p].rest # <<>> =>
                  /\ wire'[p] = wire[p] \o wr[p].rest
                  /\ sent'[p] = Append(sent[p], wr[p].m)
                  /\ wr[p].from = "cw" => cw'[p].pc = "ackok"

\* C17: cancellation never interrupts a work unit in progress. The loops
\* read the kill switch only once the current unit is complete: the write
\* pump never ends with a frame written in part, and when it ends on the
\* kill switch the frame is whole on the stream and reported; the read pump
\* never ends on the kill switch with a whole frame buffered or a published
\* frame not yet taken.
C17_NoInterruption == [](C17_Inv) /\ [][C17_Step]_vars

\* The kill switch already reads false while the write pump is in the
\* middle of a frame, part of it on the stream, and the pump is still
\* running.
C17_Witness ==
    \E p \in Peers :
        /\ ~cont(ks[p])
        /\ wr[p].rest # <<>>
        /\ llw[p] = "run"
        /\ wire[p] # <<>>

\* The loop tasks of endpoint p that have not ended.
LiveTasks(p) ==
    (IF Ended(llw[p]) THEN 0 ELSE 1) + (IF Ended(llr[p]) THEN 0 ELSE 1)
        + (IF cw[p].pc = "done" THEN 0 ELSE 1) + (IF cr[p] = "done" THEN 0 ELSE 1)

\* C18: each of the four loop tasks of a connection owns a clone of its
\* kill switch and drops it when it ends, whatever ends it: the live clones
\* are those of the tasks still running and the application's, and as soon
\* as one task has ended the kill switch reads false.
C18_EndedTaskKills ==
    \A p \in Peers :
        /\ ks[p].n = LiveTasks(p) + (IF appKs[p] THEN 1 ELSE 0)
        /\ LiveTasks(p) < 4 => ~cont(ks[p])

\* The application dropped its request-sender and kept its kill switch:
\* con-write found its queue closed and ended, the other three tasks are
\* still running, and the kill switch reads false.
C18_Witness ==
    \E p \in Peers :
        /\ appKs[p] /\ ~appSend[p]
        /\ cw[p].pc = "done"
        /\ LiveTasks(p) = 3
        /\ ~cont(ks[p])

\* con-write at p takes a request off the outgoing queue and registers it in
\* this step.
RegisterStep(p) == cw[p].pc = "recv" /\ cw'[p].pc = "send"

\* An entry of the table is the completion of a caller still waiting, under
\* that caller's id.
C19_Inv ==
    \A p \in Peers : \A i \in Ids :
        track[p][i] # 0 =>
            /\ track[p][i] \in Toks(p)
            /\ calls[p][track[p][i]].id = i
            /\ calls[p][track[p][i]].st = "wait"

\* Registering under an id that is already pending replaces the entry: the
\* id maps to the new completion alone and the older completion is dropped
\* unfulfilled. A dropped completion is never fulfilled afterwards, and a
\* response fulfils the completion the table holds for its id.
C19_Step ==
    \A p \in Peers :
        /\ RegisterStep(p) =>
              LET new == cw'[p].tok
                  old == track[p][calls[p][new].id]
              IN /\ track'[p][calls[p][new].id] = new
                 /\ calls'[p][new].st = "wait"
                 /\ old # 0 => calls'[p][old] = [calls[p][old] EXCEPT !.st = "fail"]
        /\ \A k \in Toks(p) :
              /\ calls[p][k].st = "fail" => calls'[p][k] = calls[p][k]
              /\ (calls[p][k].st = "wait" /\ calls'[p][k].st = "ok") =>
                    track[p][calls[p][k].id] = k

\* C19: when a request is registered under a correlation id that is already
\* pending, the table holds one entry for the id, the newer one; the older
\* completion is dropped unfulfilled and its caller gets a failure, never a
\* response; the next response with that id goes to the newer registration
\* only.
C19_ReRegisterReplaces == [](C19_Inv) /\ [][C19_Step]_vars

\* Two requests used the same id while the first was pending: the first
\* caller has failed, and the one response that arrived resolved the second.
C19_Witness ==
    \E p \in Peers :
        /\ Len(calls[p]) = 2
        /\ calls[p][1].id = calls[p][2].id
        /\ calls[p][1].st = "fail"
        /\ calls[p][2].st = "ok"
        /\ Len(got[p]) = 1
        /\ cont(ks[p])

\* What the application has been handed as inbound requests are requests.
C20_Inv ==
    \A p \in Peers : \A i \in 1..Len(inb[p]) : inb[p][i].req

\* A con-read turn on a request forwards it to the application and fulfils
\* no completion; while the kill switch reads true it leaves the table and
\* every completion as they were, also the one pending under the request's
\* own id. A turn on a response forwards nothing to the application.
C20_Step ==
    \A p \in Peers :
        CrTurn(p) =>
            LET msg == Head(rdSlot[p])
            IN /\ msg.req =>
                    /\ inb'[p] = Append(inb[p], msg)
                    /\ \A k \in Toks(p) : calls'[p][k].st = "ok" <=> calls[p][k].st = "ok"
                    /\ cont(ks[p]) => track'[p] = track[p] /\ calls'[p] = calls[p]
               /\ ~msg.req => inb'[p] = inb[p]

\* C20: the two RPC directions of one stream do not interfere, even on the
\* same correlation id: a message classified as a request never reaches the
\* RespondTrack, so it neither fulfils nor removes the local completion
\* pending under its id, and a response is never forwarded to the
\* application as an inbound request.
C20_DirectionsApart == [](C20_Inv) /\ [][C20_Step]_vars

\* An endpoint has its own request pending under an id and has been handed
\* the peer's request with the same id: its completion is still pending in
\* the table.
C20_Witness ==
    \E p \in Peers : \E k \in Toks(p) :
        /\ calls[p][k].st = "wait"
        /\ track[p][calls[p][k].id] = k
        /\ Request(calls[p][k].id) \in Range(inb[p])
        /\ Request(calls[p][k].id) \in Range(sent[p])
        /\ cr[p] = "run"
====
